---- MODULE Spec2Model ----
(***************************************************************************)
(* Model of 07-spacex-dash-app.py: a Dash page with a launch-site dropdown *)
(* and a payload range slider that drive a pie chart (get_pie_chart) and a *)
(* scatter chart (update_scatter_chart) computed from the module-level     *)
(* dataframe spacex_df.                                                    *)
(*                                                                         *)
(* Python values are modelled as follows: a dataframe is a sequence of     *)
(* row records, a figure is a record with its title (the pieces of the     *)
(* formatted string) and its data, None is the string "None" (its str()).  *)
(***************************************************************************)
EXTENDS Integers, Sequences, FiniteSets, TLC

VARIABLES spacex_df, max_payload, min_payload, launch_sites, dropdown_options,
          site_dropdown, payload_slider,
          success_pie_chart, success_payload_scatter_chart,
          fired, triggered

vars == <<spacex_df, max_payload, min_payload, launch_sites, dropdown_options,
          site_dropdown, payload_slider,
          success_pie_chart, success_payload_scatter_chart,
          fired, triggered>>

(* The module globals, written once when the module is loaded. *)
globals == <<spacex_df, max_payload, min_payload, launch_sites, dropdown_options>>

(***************************************************************************)
(* Bounds of the model and the values the csv file may hold.               *)
(***************************************************************************)
MaxRows == 2

Sites == {"KSC", "CCAFS"}

Payloads == {500, 9000}

Classes == {0, 1}

(* The colour column takes no part in any filter; one category stands for it. *)
Boosters == {"FT"}

Rows == [site : Sites, payload : Payloads, class : Classes, booster : Boosters]

Frames == UNION {[1..n -> Rows] : n \in 1..MaxRows}

None == "None"

NoFigure == [kind |-> "none"]

(***************************************************************************)
(* pandas helpers                                                           *)
(***************************************************************************)
RECURSIVE SeqMax(_)
SeqMax(s) ==
    IF Len(s) = 1 THEN s[1]
    ELSE LET m == SeqMax(Tail(s)) IN IF s[1] >= m THEN s[1] ELSE m

RECURSIVE SeqMin(_)
SeqMin(s) ==
    IF Len(s) = 1 THEN s[1]
    ELSE LET m == SeqMin(Tail(s)) IN IF s[1] <= m THEN s[1] ELSE m

Column(df, name) == [i \in 1..Len(df) |-> df[i][name]]

(* Series.unique(): the distinct values in order of first appearance. *)
RECURSIVE Unique(_)
Unique(s) ==
    IF s = <<>> THEN <<>>
    ELSE LET front == Unique(SubSeq(s, 1, Len(s) - 1))
             last  == s[Len(s)]
         IN IF \E i \in 1..Len(front) : front[i] = last
            THEN front ELSE Append(front, last)

Occurrences(s, v) == Cardinality({i \in 1..Len(s) : s[i] = v})

(* Insert e into a sequence sorted by descending count, after its equals. *)
RECURSIVE InsertByCount(_, _)
InsertByCount(sorted, e) ==
    IF sorted = <<>> THEN <<e>>
    ELSE IF sorted[1].count >= e.count
         THEN <<sorted[1]>> \o InsertByCount(Tail(sorted), e)
         ELSE <<e>> \o sorted

RECURSIVE SortByCount(_)
SortByCount(s) ==
    IF s = <<>> THEN <<>>
    ELSE InsertByCount(SortByCount(SubSeq(s, 1, Len(s) - 1)), s[Len(s)])

(* Series.value_counts().reset_index(): one row per value that occurs, *)
(* most frequent first.                                                 *)
value_counts(s) ==
    LET u == Unique(s)
    IN SortByCount([i \in 1..Len(u) |-> [class |-> u[i], count |-> Occurrences(s, u[i])]])

(***************************************************************************)
(* Module load: lines 10-21                                                 *)
(***************************************************************************)
DropdownOptions(sites) ==
    <<[label |-> "All Sites", value |-> "ALL"]>>
        \o [i \in 1..Len(sites) |-> [label |-> sites[i], value |-> sites[i]]]

(* The slider of the layout. *)
SliderMin == 0
SliderMax == 10000
SliderStep == 1000

SliderStops == {v \in SliderMin..SliderMax : (v - SliderMin) % SliderStep = 0}

(* The callbacks, by the id of their Output, and the ids of their Inputs. *)
pie_inputs_with_slider == {"site-dropdown", "payload-slider"}

pie_inputs == {"site-dropdown"}

scatter_inputs_without_site == {"payload-slider"}

scatter_inputs == {"site-dropdown", "payload-slider"}

callback_inputs ==
    [o \in {"success-pie-chart", "success-payload-scatter-chart"} |->
        IF o = "success-pie-chart" THEN pie_inputs ELSE scatter_inputs]

Outputs == DOMAIN callback_inputs

Triggered(component) == {o \in Outputs : component \in callback_inputs[o]}

(***************************************************************************)
(* get_pie_chart: lines 65-100                                              *)
(***************************************************************************)
Outcome(x) == IF x = 1 THEN "Success" ELSE "Failure"

get_pie_chart_fail_counts_success(entered_site) ==
    IF entered_site = "ALL"
    THEN LET total_success == Len(SelectSeq(spacex_df, LAMBDA r : r.class = 1))
             total_fail    == Len(SelectSeq(spacex_df, LAMBDA r : r.class = 1))
         IN [kind  |-> "pie",
             title |-> <<"Total Successful vs. Failed Launches for All Sites">>,
             data  |-> <<[name |-> "Success", count |-> total_success],
                         [name |-> "Failure", count |-> total_fail]>>]
    ELSE LET filtered_df    == SelectSeq(spacex_df, LAMBDA r : r.site = entered_site)
             outcome_counts == value_counts(Column(filtered_df, "class"))
         IN [kind  |-> "pie",
             title |-> <<"Success and Failure Launches for Site: ", entered_site>>,
             data  |-> [i \in 1..Len(outcome_counts) |->
                          [name  |-> Outcome(outcome_counts[i].class),
                           count |-> outcome_counts[i].count]]]

get_pie_chart(entered_site) ==
    IF entered_site = "ALL"
    THEN LET total_success == Len(SelectSeq(spacex_df, LAMBDA r : r.class = 1))
             total_fail    == Len(SelectSeq(spacex_df, LAMBDA r : r.class = 0))
         IN [kind  |-> "pie",
             title |-> <<"Total Successful vs. Failed Launches for All Sites">>,
             data  |-> <<[name |-> "Success", count |-> total_success],
                         [name |-> "Failure", count |-> total_fail]>>]
    ELSE LET filtered_df    == SelectSeq(spacex_df, LAMBDA r : r.site = entered_site)
             outcome_counts == value_counts(Column(filtered_df, "class"))
         IN [kind  |-> "pie",
             title |-> <<"Success and Failure Launches for Site: ", entered_site>>,
             data  |-> [i \in 1..Len(outcome_counts) |->
                          [name  |-> Outcome(outcome_counts[i].class),
                           count |-> outcome_counts[i].count]]]

(***************************************************************************)
(* update_scatter_chart: lines 109-140                                      *)
(***************************************************************************)
(* px.scatter(df, x='Payload Mass (kg)', y='class', color='Booster ...'). *)
Points(df) ==
    [i \in 1..Len(df) |->
        [x |-> df[i].payload, y |-> df[i].class, color |-> df[i].booster]]

payload_filter_exclusive_high(df, low, high) ==
    SelectSeq(df, LAMBDA r : r.payload >= low /\ r.payload < high)

payload_filter(df, low, high) ==
    SelectSeq(df, LAMBDA r : r.payload >= low /\ r.payload <= high)

scatter_title_swapped(entered_site, low, high) ==
    IF entered_site = "ALL"
    THEN <<"Payload Mass vs. Launch Outcome for All Sites (Payload Range: ",
           ToString(high), "-", ToString(low), " kg)">>
    ELSE <<"Payload Mass vs. Launch Outcome for Site: ", entered_site,
           " (Payload Range: ", ToString(high), "-", ToString(low), " kg)">>

(* str.format: the literal pieces of the template and the formatted arguments. *)
scatter_title(entered_site, low, high) ==
    IF entered_site = "ALL"
    THEN <<"Payload Mass vs. Launch Outcome for All Sites (Payload Range: ",
           ToString(low), "-", ToString(high), " kg)">>
    ELSE <<"Payload Mass vs. Launch Outcome for Site: ", entered_site,
           " (Payload Range: ", ToString(low), "-", ToString(high), " kg)">>

update_scatter_chart_raises_on_empty(entered_site, payload_range) ==
    LET low  == payload_range[1]
        high == payload_range[2]
        filtered_df == payload_filter(spacex_df, low, high)
        shown == IF entered_site = "ALL" THEN filtered_df
                 ELSE SelectSeq(filtered_df, LAMBDA r : r.site = entered_site)
    IN IF shown = <<>>
       THEN [kind |-> "error"]
       ELSE [kind   |-> "scatter",
             title  |-> scatter_title(entered_site, low, high),
             points |-> Points(shown),
             yaxis_title |-> "Launch Outcome (0=Failure, 1=Success)"]

update_scatter_chart(entered_site, payload_range) ==
    LET low  == payload_range[1]
        high == payload_range[2]
        filtered_df == payload_filter(spacex_df, low, high)
    IN IF entered_site = "ALL"
       THEN [kind   |-> "scatter",
             title  |-> scatter_title(entered_site, low, high),
             points |-> Points(filtered_df),
             yaxis_title |-> "Launch Outcome (0=Failure, 1=Success)"]
       ELSE LET site_filtered_df ==
                    SelectSeq(filtered_df, LAMBDA r : r.site = entered_site)
            IN [kind   |-> "scatter",
                title  |-> scatter_title(entered_site, low, high),
                points |-> Points(site_filtered_df),
                yaxis_title |-> "Launch Outcome (0=Failure, 1=Success)"]

(***************************************************************************)
(* The page: layout (lines 27-57) and the two callbacks                     *)
(***************************************************************************)
slider_value_full_scale == <<SliderMin, SliderMax>>

(* value=[min_payload, max_payload] of the RangeSlider. *)
slider_value == <<min_payload, max_payload>>

Load(df) ==
    /\ spacex_df = df
    /\ max_payload = SeqMax(Column(df, "payload"))
    /\ min_payload = SeqMin(Column(df, "payload"))
    /\ launch_sites = Unique(Column(df, "site"))
    /\ dropdown_options = DropdownOptions(launch_sites)

(* The module is loaded and the layout is built; no page is served yet. *)
Init ==
    /\ \E df \in Frames : Load(df)
    /\ site_dropdown = "ALL"
    /\ payload_slider = slider_value
    /\ success_pie_chart = NoFigure
    /\ success_payload_scatter_chart = NoFigure
    /\ fired = {}
    /\ triggered = "none"

Fire_filtering_in_place(outs) ==
    /\ fired' = outs
    /\ success_pie_chart' =
          IF "success-pie-chart" \in outs
          THEN get_pie_chart(site_dropdown') ELSE success_pie_chart
    /\ success_payload_scatter_chart' =
          IF "success-payload-scatter-chart" \in outs
          THEN update_scatter_chart(site_dropdown', payload_slider')
          ELSE success_payload_scatter_chart
    /\ spacex_df' =
          IF "success-payload-scatter-chart" \in outs
          THEN payload_filter(spacex_df, payload_slider'[1], payload_slider'[2])
          ELSE spacex_df
    /\ UNCHANGED <<max_payload, min_payload, launch_sites, dropdown_options>>

(* Dash runs the callbacks outs with the values the controls now have and *)
(* puts each returned figure in its graph; the callbacks only read the    *)
(* module globals.                                                        *)
Fire(outs) ==
    /\ fired' = outs
    /\ success_pie_chart' =
          IF "success-pie-chart" \in outs
          THEN get_pie_chart(site_dropdown') ELSE success_pie_chart
    /\ success_payload_scatter_chart' =
          IF "success-payload-scatter-chart" \in outs
          THEN update_scatter_chart(site_dropdown', payload_slider')
          ELSE success_payload_scatter_chart
    /\ UNCHANGED globals

(* The page is opened: every callback runs once with the layout's values. *)
PageLoad ==
    /\ triggered = "none"
    /\ triggered' = "initial"
    /\ UNCHANGED <<site_dropdown, payload_slider>>
    /\ Fire(Outputs)

(* The user picks an option of the dropdown. *)
SelectSite ==
    /\ triggered # "none"
    /\ \E i \in 1..Len(dropdown_options) :
          /\ dropdown_options[i].value # site_dropdown
          /\ site_dropdown' = dropdown_options[i].value
    /\ triggered' = "site-dropdown"
    /\ UNCHANGED payload_slider
    /\ Fire(Triggered("site-dropdown"))

(* The dropdown is clearable (the placeholder shows then): its value is None. *)
ClearSite ==
    /\ triggered # "none"
    /\ site_dropdown # None
    /\ site_dropdown' = None
    /\ triggered' = "site-dropdown"
    /\ UNCHANGED payload_slider
    /\ Fire(Triggered("site-dropdown"))

(* The user drags one handle of the range slider to a stop; the handles *)
(* do not pass each other.                                              *)
MoveSlider ==
    /\ triggered # "none"
    /\ \E h \in 1..2, stop \in SliderStops :
          LET v == [payload_slider EXCEPT ![h] = stop]
          IN /\ v # payload_slider
             /\ v[1] <= v[2]
             /\ payload_slider' = v
    /\ triggered' = "payload-slider"
    /\ UNCHANGED site_dropdown
    /\ Fire(Triggered("payload-slider"))

Next ==
    \/ PageLoad
    \/ SelectSite
    \/ ClearSite
    \/ MoveSlider

Spec == Init /\ [][Next]_vars

(***************************************************************************)
(* Direct requests: the callback endpoint accepts any argument values, not *)
(* only those the two controls can produce.                                *)
(***************************************************************************)
SiteArgs == {"ALL", None} \cup Sites

RangeArgs == (Payloads \cup {SliderMin, SliderMax}) \X (Payloads \cup {SliderMin, SliderMax})

Request ==
    /\ triggered # "none"
    /\ \E s \in SiteArgs, r \in RangeArgs :
          /\ <<s, r>> # <<site_dropdown, payload_slider>>
          /\ site_dropdown' = s
          /\ payload_slider' = r
    /\ triggered' = "request"
    /\ Fire(Outputs)

CallNext ==
    \/ PageLoad
    \/ Request

CallSpec == Init /\ [][CallNext]_vars

(***************************************************************************)
(* Properties                                                               *)
(***************************************************************************)
scatter == success_payload_scatter_chart

pie == success_pie_chart

(* The rows the site selection admits, by index. *)
SiteRows(site) ==
    {i \in 1..Len(spacex_df) : site = "ALL" \/ spacex_df[i].site = site}

(* The rows both predicates admit, by index. *)
Matching(site, low, high) ==
    {i \in SiteRows(site) : low <= spacex_df[i].payload /\ spacex_df[i].payload <= high}

(* The position of row i among the rows M, counted in dataset order. *)
Rank(M, i) == Cardinality({j \in M : j <= i})

RECURSIVE Count(_, _)
Count(data, name) ==
    IF data = <<>> THEN 0
    ELSE (IF data[1].name = name THEN data[1].count ELSE 0) + Count(Tail(data), name)

(* C1: the scatter chart holds exactly one point per row that satisfies   *)
(* the site predicate and low <= payload <= high (both inclusive), no     *)
(* other row, in the order of the dataset.                                *)
C1_ScatterIsFilteredRows ==
    scatter # NoFigure =>
        LET M == Matching(site_dropdown, payload_slider[1], payload_slider[2])
        IN /\ scatter.kind = "scatter"
           /\ Len(scatter.points) = Cardinality(M)
           /\ \A i \in M :
                 scatter.points[Rank(M, i)] =
                     [x     |-> spacex_df[i].payload,
                      y     |-> spacex_df[i].class,
                      color |-> spacex_df[i].booster]

C1_Witness ==
    /\ triggered = "payload-slider"
    /\ site_dropdown \in Sites
    /\ Len(spacex_df) = 2
    /\ spacex_df[1].site = site_dropdown
    /\ spacex_df[2].site = site_dropdown
    /\ spacex_df[2].payload = payload_slider[2]
    /\ spacex_df[1].payload < payload_slider[1]
    /\ Len(scatter.points) = 1

(* C2: a payload-slider event leaves the pie chart as it was and runs the *)
(* scatter callback only.                                                 *)
C2_SliderLeavesPie ==
    [][triggered' = "payload-slider" =>
          /\ success_pie_chart' = success_pie_chart
          /\ fired' = {"success-payload-scatter-chart"}]_vars

C2_Witness ==
    /\ triggered = "payload-slider"
    /\ site_dropdown = "ALL"
    /\ Len(spacex_df) = 2
    /\ Len(scatter.points) = 1
    /\ Count(pie.data, "Success") = 1
    /\ Count(pie.data, "Failure") = 1

(* C3: once an event has been processed, both charts are the ones derived *)
(* from the current values of the controls: the pie chart from the        *)
(* selected site, the scatter chart from the selected site and the range. *)
C3_ChartsAreCurrent ==
    triggered # "none" =>
        /\ success_pie_chart = get_pie_chart(site_dropdown)
        /\ success_payload_scatter_chart =
              update_scatter_chart(site_dropdown, payload_slider)

C3_Witness ==
    /\ triggered = "site-dropdown"
    /\ fired = Outputs
    /\ site_dropdown \in Sites
    /\ payload_slider # <<min_payload, max_payload>>
    /\ Len(scatter.points) < Cardinality(SiteRows(site_dropdown))

(* C4: the counts of the pie chart add up to the number of rows it is     *)
(* computed from (the whole dataset for "ALL", the rows of the selected   *)
(* site otherwise, never filtered by payload); the success count is the   *)
(* number of those rows with class 1, the failure count with class 0.     *)
C4_PieCountsRows ==
    pie # NoFigure =>
        LET rows == SiteRows(site_dropdown)
        IN /\ Count(pie.data, "Success")
                 = Cardinality({i \in rows : spacex_df[i].class = 1})
           /\ Count(pie.data, "Failure")
                 = Cardinality({i \in rows : spacex_df[i].class = 0})
           /\ Count(pie.data, "Success") + Count(pie.data, "Failure")
                 = Cardinality(rows)

C4_Witness ==
    /\ site_dropdown \in Sites
    /\ Cardinality(SiteRows(site_dropdown)) < Len(spacex_df)
    /\ Count(pie.data, "Failure") = 1
    /\ scatter.points = <<>>

(* C5: the pie chart always carries a Success entry and a Failure entry,  *)
(* an outcome without rows being present with count 0.                    *)
C5_BothEntries ==
    pie # NoFigure =>
        /\ \E k \in 1..Len(pie.data) : pie.data[k].name = "Success"
        /\ \E k \in 1..Len(pie.data) : pie.data[k].name = "Failure"

(* C6: when no row matches the site and the range, the inverted range     *)
(* low > high included, update_scatter_chart returns a scatter figure     *)
(* with no points instead of failing.                                     *)
C6_EmptyIsNoError ==
    triggered # "none" =>
        /\ scatter.kind = "scatter"
        /\ (Matching(site_dropdown, payload_slider[1], payload_slider[2]) = {}
               => scatter.points = <<>>)

C6_Witness ==
    /\ triggered = "request"
    /\ payload_slider[1] > payload_slider[2]
    /\ scatter.kind = "scatter"
    /\ scatter.points = <<>>

(* C7: until the first interaction the selected site is "ALL" and the     *)
(* range is (smallest payload, largest payload) of the dataset, and the   *)
(* scatter chart then shows every row; for any range with "ALL" selected  *)
(* it shows at most as many points as the dataset has rows.               *)
C7_InitialShowsAll ==
    /\ triggered \in {"none", "initial"} =>
          /\ site_dropdown = "ALL"
          /\ payload_slider = <<min_payload, max_payload>>
          /\ \A i \in 1..Len(spacex_df) :
                min_payload <= spacex_df[i].payload /\ spacex_df[i].payload <= max_payload
          /\ \E i \in 1..Len(spacex_df) : spacex_df[i].payload = min_payload
          /\ \E i \in 1..Len(spacex_df) : spacex_df[i].payload = max_payload
    /\ (scatter # NoFigure /\ site_dropdown = "ALL") =>
          /\ Len(scatter.points) <= Len(spacex_df)
          /\ (payload_slider = <<min_payload, max_payload>>
                 => Len(scatter.points) = Len(spacex_df))

C7_Witness ==
    /\ triggered = "initial"
    /\ min_payload < max_payload
    /\ Len(scatter.points) = Len(spacex_df)

(* C8: in every reachable state the selected site is "ALL" or one of the  *)
(* dataset's site names, the dropdown offers "ALL" and each site name     *)
(* once, and the range satisfies 0 <= low <= high within [0, 10000].      *)
C8_ControlStateValid ==
    /\ site_dropdown \in {"ALL"} \cup {spacex_df[i].site : i \in 1..Len(spacex_df)}
    /\ {dropdown_options[k].value : k \in 1..Len(dropdown_options)}
          = {"ALL"} \cup {spacex_df[i].site : i \in 1..Len(spacex_df)}
    /\ \A j, k \in 1..Len(dropdown_options) :
          dropdown_options[j].value = dropdown_options[k].value => j = k
    /\ SliderMin <= payload_slider[1]
    /\ payload_slider[1] <= payload_slider[2]
    /\ payload_slider[2] <= SliderMax

(* C9: no event and no callback changes the dataset, min_payload,         *)
(* max_payload or the site list, and the charts after an event are the    *)
(* ones the dataset as loaded gives for the values of the controls.       *)
C9_DatasetReadOnly ==
    [][/\ spacex_df' = spacex_df
       /\ min_payload' = min_payload
       /\ max_payload' = max_payload
       /\ launch_sites' = launch_sites
       /\ dropdown_options' = dropdown_options
       /\ success_pie_chart' = get_pie_chart(site_dropdown')
       /\ success_payload_scatter_chart' =
             update_scatter_chart(site_dropdown', payload_slider')]_vars

C9_Witness ==
    /\ triggered = "payload-slider"
    /\ Len(spacex_df) = 2
    /\ scatter.points = <<>>
    /\ Len(pie.data) = 2

(* C10: the title of the scatter chart names the selected site (all sites *)
(* for "ALL") and the low and high bound of the range its points were     *)
(* filtered with.                                                         *)
C10_TitleNamesSelection ==
    scatter # NoFigure =>
        LET t    == scatter.title
            low  == payload_slider[1]
            high == payload_slider[2]
        IN /\ IF site_dropdown = "ALL"
              THEN t[1] = "Payload Mass vs. Launch Outcome for All Sites (Payload Range: "
              ELSE \E k \in 1..Len(t) : t[k] = site_dropdown
           /\ \E k \in 1..(Len(t) - 2) :
                 /\ t[k] = ToString(low)
                 /\ t[k + 1] = "-"
                 /\ t[k + 2] = ToString(high)
           /\ Len(scatter.points) = Cardinality(Matching(site_dropdown, low, high))

C10_Witness ==
    /\ triggered = "payload-slider"
    /\ site_dropdown \in Sites
    /\ payload_slider[1] < payload_slider[2]
    /\ scatter.title[2] = site_dropdown
    /\ Len(scatter.points) = 1

====
